---- MODULE Spec2Model ----
(***************************************************************************)
(* YELLCOP: a Slack moderation bot (src/main.go).  The module models       *)
(*   - the text functions isYell and checkMessage, computed rune by rune   *)
(*     as the Go code and the library calls it makes compute them;         *)
(*   - the handler: Invoke, kickUser, postMessage, fetchChannelUsers and   *)
(*     checkHistory, with the Slack API as a nondeterministic environment. *)
(* A Go string is a sequence of runes; a rune is a one-character string    *)
(* (a rune outside printable ASCII is named "U+<code point>").             *)
(***************************************************************************)
EXTENDS Integers, Sequences, FiniteSets, TLC

\* ------------------------------------------------------------------ runes

LowerLetters ==
    <<"a","b","c","d","e","f","g","h","i","j","k","l","m",
      "n","o","p","q","r","s","t","u","v","w","x","y","z">>

UpperLetters ==
    <<"A","B","C","D","E","F","G","H","I","J","K","L","M",
      "N","O","P","Q","R","S","T","U","V","W","X","Y","Z">>

Digits == <<"0","1","2","3","4","5","6","7","8","9">>

\* Printable ASCII, code points 32..126, in order (the grave accent, which a
\* TLA+ string cannot hold, is named by its code point).
Ascii ==
    <<" ","!","\"","#","$","%","&","'","(",")","*","+",",","-",".","/">>
    \o Digits \o <<":",";","<","=",">","?","@">>
    \o UpperLetters \o <<"[","\\","]","^","_","U+96">>
    \o LowerLetters \o <<"{","|","}","~">>

Range(s) == { s[i] : i \in 1..Len(s) }

IndexIn(s, c) == CHOOSE i \in 1..Len(s) : s[i] = c

IsLower(c) == c \in Range(LowerLetters)

IsUpper(c) == c \in Range(UpperLetters)

IsDigit(c) == c \in Range(Digits)

\* regexp \w: [0-9A-Za-z_]
IsWordRune(c) == IsLower(c) \/ IsUpper(c) \/ IsDigit(c) \/ c = "_"

\* regexp \s: [\t\n\f\r ]; the same runes are the ASCII part of unicode.IsSpace.
IsSpaceRune(c) == c \in {" ", "\t", "\n", "\f", "\r"}

\* unicode.ToUpper on one rune (ASCII letters; every other modelled rune has
\* no upper-case mapping).
ToUpperRune(c) == IF IsLower(c) THEN UpperLetters[IndexIn(LowerLetters, c)] ELSE c

\* strings.ToUpper
ToUpper(s) == [i \in 1..Len(s) |-> ToUpperRune(s[i])]

\* utf8.EncodeRune of code point x, as a rune of the model.
Rune(x) == IF x \in 32..126 THEN Ascii[x - 31] ELSE "U+" \o ToString(x)

\* ---------------------------------------------------------------- strings

HasPrefixAt(s, i, p) ==
    /\ i + Len(p) - 1 <= Len(s)
    /\ \A k \in 1..Len(p) : s[i + k - 1] = p[k]

\* strings.Contains(s, sub)
Contains(s, sub) == \E i \in 1..(Len(s) + 1) : HasPrefixAt(s, i, sub)

RECURSIVE FieldsFrom(_, _, _)
FieldsFrom(s, i, cur) ==
    IF i > Len(s)
    THEN IF cur = <<>> THEN <<>> ELSE <<cur>>
    ELSE IF IsSpaceRune(s[i])
         THEN (IF cur = <<>> THEN <<>> ELSE <<cur>>) \o FieldsFrom(s, i + 1, <<>>)
         ELSE FieldsFrom(s, i + 1, Append(cur, s[i]))

\* strings.Fields(s): the maximal runs of non-space runes, in order.
Fields(s) == FieldsFrom(s, 1, <<>>)

\* ------------------------------------------------------- emojiRE and urlRE

\* emojiRE = \:[^:\s]+\:   matched at position i: the index of the closing colon,
\* or 0 when the pattern does not match there.
EmojiEnd(s, i) ==
    IF s[i] # ":" THEN 0
    ELSE LET stops == { j \in (i + 1)..Len(s) : s[j] = ":" \/ IsSpaceRune(s[j]) }
         IN  IF stops = {} THEN 0
             ELSE LET j == CHOOSE k \in stops : \A m \in stops : k <= m
                  IN  IF s[j] = ":" /\ j > i + 1 THEN j ELSE 0

RECURSIVE StripFrom(_, _)
StripFrom(s, i) ==
    IF i > Len(s) THEN <<>>
    ELSE IF EmojiEnd(s, i) # 0
         THEN StripFrom(s, EmojiEnd(s, i) + 1)
         ELSE <<s[i]>> \o StripFrom(s, i + 1)

\* emojiRE.ReplaceAllString(s, ""): the leftmost non-overlapping matches removed.
emojiStrip(s) == StripFrom(s, 1)

\* urlRE = https?://\w+   urlRE.MatchString(s): a match anywhere in s.
urlMatch(s) ==
    \E i \in 1..Len(s) :
        /\ HasPrefixAt(s, i, <<"h","t","t","p">>)
        /\ \/ /\ HasPrefixAt(s, i + 4, <<":","/","/">>)
              /\ i + 7 <= Len(s)
              /\ IsWordRune(s[i + 7])
           \/ /\ HasPrefixAt(s, i + 4, <<"s",":","/","/">>)
              /\ i + 8 <= Len(s)
              /\ IsWordRune(s[i + 8])

\* ------------------------------------------------------ html.UnescapeString

\* The named character references of package html that the model decodes (the
\* ones Slack's transport escaping and their upper-case spellings use), each
\* with its code point; the references without a semicolon are those the
\* package accepts without one.
Entities ==
    { << <<"a","m","p",";">>, 38 >>,      << <<"a","m","p">>, 38 >>,
      << <<"l","t",";">>, 60 >>,          << <<"l","t">>, 60 >>,
      << <<"g","t",";">>, 62 >>,          << <<"g","t">>, 62 >>,
      << <<"q","u","o","t",";">>, 34 >>,  << <<"q","u","o","t">>, 34 >>,
      << <<"A","M","P",";">>, 38 >>,      << <<"A","M","P">>, 38 >>,
      << <<"L","T",";">>, 60 >>,          << <<"L","T">>, 60 >>,
      << <<"G","T",";">>, 62 >>,          << <<"G","T">>, 62 >>,
      << <<"Q","U","O","T",";">>, 34 >>,  << <<"Q","U","O","T">>, 34 >>,
      << <<"a","p","o","s",";">>, 39 >>,
      << <<"n","b","s","p",";">>, 160 >>, << <<"n","b","s","p">>, 160 >> }

\* entity[name]: the code point of a named reference, 0 when there is none.
entity(name) ==
    IF \E e \in Entities : e[1] = name
    THEN (CHOOSE e \in Entities : e[1] = name)[2]
    ELSE 0

\* replacementTable of package html: the code points 0x80..0x9F stand for.
replacementTable ==
    <<8364, 129, 8218, 402, 8222, 8230, 8224, 8225, 710, 8240, 352, 8249, 338,
      141, 381, 143, 144, 8216, 8217, 8220, 8221, 8226, 8211, 8212, 732, 8482,
      353, 8250, 339, 157, 382, 376>>

IsHexRune(c) == IsDigit(c) \/ c \in {"a","b","c","d","e","f","A","B","C","D","E","F"}

HexVal(c) ==
    IF IsDigit(c) THEN IndexIn(Digits, c) - 1
    ELSE IF IsLower(c) THEN IndexIn(LowerLetters, c) + 9
    ELSE IndexIn(UpperLetters, c) + 9

IsAlnum(c) == IsLower(c) \/ IsUpper(c) \/ IsDigit(c)

\* The length of the longest run of runes of s from index i on that satisfy
\* the class (hex digits, decimal digits or letters and digits).
RECURSIVE RunLen(_, _, _)
RunLen(s, i, class) ==
    IF i > Len(s) THEN 0
    ELSE IF \/ class = "hex" /\ IsHexRune(s[i])
            \/ class = "dec" /\ IsDigit(s[i])
            \/ class = "alnum" /\ IsAlnum(s[i])
         THEN 1 + RunLen(s, i + 1, class)
         ELSE 0

\* The number the digits of d denote in the given base.
RECURSIVE NumVal(_, _)
NumVal(d, base) ==
    IF d = <<>> THEN 0
    ELSE NumVal(SubSeq(d, 1, Len(d) - 1), base) * base + HexVal(d[Len(d)])

\* The rune a numeric reference with value x decodes to.
NumericRune(x) ==
    IF x \in 128..159 THEN Rune(replacementTable[x - 127])
    ELSE IF x = 0 \/ x \in 55296..57343 \/ x > 1114111 THEN Rune(65533)
    ELSE Rune(x)

\* unescapeEntity: s[src] is "&".  The result is the runes written and the
\* index at which reading goes on.  The Go index i counts from the "&" at 0,
\* so s[i] of the code is s[src + i] here.
unescapeEntity(s, src) ==
    LET n == Len(s) - src + 1
        one == [out |-> <<"&">>, next |-> src + 1]
    IN
    IF n <= 1 THEN one
    ELSE IF s[src + 1] = "#"
    THEN IF n <= 3 THEN one
         ELSE LET hex == s[src + 2] \in {"x", "X"}
                  i0 == IF hex THEN 3 ELSE 2
                  run == RunLen(s, src + i0, IF hex THEN "hex" ELSE "dec")
                  stop == src + i0 + run
                  i == IF stop <= Len(s) /\ s[stop] = ";" THEN i0 + run + 1 ELSE i0 + run
                  x == NumVal(SubSeq(s, src + i0, src + i0 + run - 1), IF hex THEN 16 ELSE 10)
              IN  IF i <= 3 THEN one
                  ELSE [out |-> <<NumericRune(x)>>, next |-> src + i]
    ELSE LET run == RunLen(s, src + 1, "alnum")
             stop == src + 1 + run
             i == IF stop <= Len(s) /\ s[stop] = ";" THEN run + 2 ELSE run + 1
             entityName == SubSeq(s, src + 1, src + i - 1)
             maxLen == IF Len(entityName) - 1 > 6 THEN 6 ELSE Len(entityName) - 1
             hits == { j \in 2..maxLen : entity(SubSeq(entityName, 1, j)) # 0 }
         IN  IF entityName = <<>> THEN one
             ELSE IF entity(entityName) # 0
             THEN [out |-> <<Rune(entity(entityName))>>, next |-> src + i]
             ELSE IF hits # {}
             THEN LET j == CHOOSE k \in hits : \A m \in hits : m <= k
                  IN  [out |-> <<Rune(entity(SubSeq(entityName, 1, j)))>>,
                       next |-> src + j + 1]
             ELSE [out |-> SubSeq(s, src, src + i - 1), next |-> src + i]

RECURSIVE UnescapeFrom(_, _)
UnescapeFrom(s, i) ==
    IF i > Len(s) THEN <<>>
    ELSE IF s[i] = "&"
         THEN unescapeEntity(s, i).out \o UnescapeFrom(s, unescapeEntity(s, i).next)
         ELSE <<s[i]>> \o UnescapeFrom(s, i + 1)

\* html.UnescapeString(s): one pass, left to right; decoded text is not read again.
UnescapeString(s) == UnescapeFrom(s, 1)

\* ------------------------------------------------------------------ isYell

\* The classifier of an earlier revision, which tests prefixes instead of
\* stripping shortcodes and matching the URL pattern.
isYellByPrefix(s) ==
    \/ HasPrefixAt(s, 1, <<":">>)
    \/ HasPrefixAt(s, 1, <<"h","t","t","p">>)
    \/ ToUpper(UnescapeString(s)) = UnescapeString(s)

\* isYell comparing with the lower-cased text.
isYellToLower(s) ==
    LET t == emojiStrip(s)
        lower(c) == IF IsUpper(c) THEN LowerLetters[IndexIn(UpperLetters, c)] ELSE c
    IN  IF urlMatch(t) THEN TRUE
        ELSE LET u == UnescapeString(t) IN [i \in 1..Len(u) |-> lower(u[i])] = u

\* isYell without the removal of emoji shortcodes.
isYellNoStrip(s) ==
    IF urlMatch(s) THEN TRUE
    ELSE LET u == UnescapeString(s) IN ToUpper(u) = u

isYell(s) ==
    LET t == emojiStrip(s)
    IN  IF urlMatch(t) THEN TRUE
        ELSE LET u == UnescapeString(t) IN ToUpper(u) = u

\* ------------------------------------------------------------ checkMessage

skipMessages ==
    << <<"d","e","p","a","r","t","u","r","e"," ","c","a","n","c","e","l","l","e","d">>,
       <<"d","e","p","a","r","t","u","r","e"," ","r","e","m","o","v","a","l"," ","r","e","p","o","r","t">>,
       <<"h","a","s"," ","j","o","i","n","e","d"," ","t","h","e"," ","c","h","a","n","n","e","l">>,
       <<"h","a","s"," ","j","o","i","n","e","d"," ","t","h","e"," ","g","r","o","u","p">>,
       <<"h","a","s"," ","l","e","f","t"," ","t","h","e"," ","c","h","a","n","n","e","l">>,
       <<"r","e","n","a","m","e","d"," ","t","h","e"," ","c","h","a","n","n","e","l"," ","f","r","o","m">>,
       <<"s","e","t"," ","t","h","e"," ","c","h","a","n","n","e","l"," ","p","u","r","p","o","s","e">>,
       <<"s","e","t"," ","t","h","e"," ","c","h","a","n","n","e","l"," ","t","o","p","i","c">>,
       <<"s","e","t"," ","t","h","e"," ","c","h","a","n","n","e","l","'","s"," ","p","u","r","p","o","s","e">>,
       <<"s","e","t"," ","t","h","e"," ","c","h","a","n","n","e","l","'","s"," ","t","o","p","i","c">>,
       <<"s","e","t"," ","u","p"," ","a"," ","r","e","m","i","n","d","e","r">>,
       <<"s","t","a","r","t","e","d"," ","a"," ","c","a","l","l">>,
       <<"t","h","i","s"," ","c","o","n","t","e","n","t"," ","c","a","n","'","t"," ","b","e"," ","d","i","s","p","l","a","y","e","d">>,
       <<"t","h","i","s"," ","m","e","s","s","a","g","e"," ","w","a","s"," ","d","e","l","e","t","e","d">> >>

\* The message templates are opaque to the handler until postMessage renders
\* them, so they stay TLA+ strings.
warningMessages ==
    << "warning for <@{user}>",
       "careful <@{user}>!",
       "use your shift key <@{user}>, its not that hard",
       "only caps <@{user}>!",
       "i can't hear you <@{user}>!!",
       "this is sig-yelling <@{user}>, that ain't yelling!" >>

failureMessages ==
    << "kicking <@{user}>",
       "<@{user}> has crossed the line, pull the lever!",
       "by the power vested in me, i hereby kick <@{user}>",
       "<@{user}> is experiencing caps difficulties",
       "<@{user}> do no pass go, do not collect $200",
       "oops, I just kicked <@{user}>" >>

\* The fields of handler that the modelled methods read or write.
NewHandler(threshold, warnings, kicks) ==
    [ threshold   |-> threshold,
      chUsers     |-> <<>>,
      msgWarnings |-> warnings,
      msgKick     |-> kicks ]

\* randomMessage(haystack): haystack[rand.Intn(len(haystack))], any entry.
randomMessage(haystack) == Range(haystack)

\* Whether msg contains one of skipMessages.
IsSkipped(msg) == \E k \in 1..Len(skipMessages) : Contains(msg, skipMessages[k])

\* The count checkMessage keeps: the fields of msg that isYell rejects.
NonYellCount(msg) ==
    LET words == Fields(msg)
    IN  Cardinality({ k \in 1..Len(words) : ~isYell(words[k]) })

\* checkMessage with the skip loop left out.
checkMessageNoSkip(hh, msg) ==
    LET count == NonYellCount(msg)
    IN  IF count > hh.threshold
        THEN { [out |-> t, kick |-> TRUE] : t \in randomMessage(hh.msgKick) }
        ELSE IF count > 0
        THEN { [out |-> t, kick |-> FALSE] : t \in randomMessage(hh.msgWarnings) }
        ELSE { [out |-> "", kick |-> FALSE] }

\* checkMessage with the kick comparison off by one.
checkMessageOffByOne(hh, msg) ==
    IF IsSkipped(msg) THEN { [out |-> "", kick |-> FALSE] }
    ELSE LET count == NonYellCount(msg)
         IN  IF count >= hh.threshold /\ count > 0
             THEN { [out |-> t, kick |-> TRUE] : t \in randomMessage(hh.msgKick) }
             ELSE IF count > 0
             THEN { [out |-> t, kick |-> FALSE] : t \in randomMessage(hh.msgWarnings) }
             ELSE { [out |-> "", kick |-> FALSE] }

\* h.checkMessage(msg): the set of (out, kick) pairs it may return; the choice
\* within a template list is randomMessage's.
checkMessage(hh, msg) ==
    IF IsSkipped(msg) THEN { [out |-> "", kick |-> FALSE] }
    ELSE LET count == NonYellCount(msg)
         IN  IF count > hh.threshold
             THEN { [out |-> t, kick |-> TRUE] : t \in randomMessage(hh.msgKick) }
             ELSE IF count > 0
             THEN { [out |-> t, kick |-> FALSE] : t \in randomMessage(hh.msgWarnings) }
             ELSE { [out |-> "", kick |-> FALSE] }

\* ------------------------------------------------------------ the handler

VARIABLES
    word,        \* SpecYell: the token handed to isYell
    emoji,       \* SpecYell: an emoji shortcode appended to word
    retWord,     \* SpecYell: <<isYell(word)>> once called, <<>> before
    retBoth,     \* SpecYell: <<isYell(word \o emoji)>> once called, <<>> before
    msg,         \* SpecCheck: the text handed to checkMessage
    cmOut,       \* SpecCheck: <<what checkMessage returned>>, <<>> before
    h,           \* the handler: threshold, chUsers, msgWarnings, msgKick
    activity,    \* Slack: each user's message count in the inactivity window
    pc,          \* "ready" | "done" (Invoke returned) | "crashed" (it panicked)
    ev,          \* the event of the last invocation
    calls,       \* the last invocation's KickUserFromConversation and
                 \* PostMessage calls, in order, each with its result
    resp,        \* what the last invocation returned
    audit,       \* what checkHistory did in the last invocation
    fetchedFor,  \* the channel whose fetch last filled h.chUsers ("" if none)
    inv,         \* SpecConc: each concurrent invocation's place in checkHistory
    overlap      \* SpecConc: whether an invocation has read, shuffled or indexed
                 \* h.chUsers while another was between its reset and the end
                 \* of its refill

vars == <<word, emoji, retWord, retBoth, msg, cmOut, h, activity, pc, ev,
          calls, resp, audit, fetchedFor, inv, overlap>>

textVars == <<word, emoji, retWord, retBoth, msg, cmOut>>

concVars == <<inv, overlap>>

runVars == <<activity, pc, ev, calls, resp, audit, fetchedFor, inv, overlap>>

\* ---- Slack, as the handler sees it

Channels == {"C1", "C2", "C3"}

Users == {"U1", "U2", "B1"}

\* The users for which GetUserInfo reports IsBot.
Bots == {"B1"}

\* What GetUsersInConversation lists for a channel, over all pages.
ChannelMembers(chID) ==
    IF chID = "C1" THEN <<"U1", "U2", "B1">>
    ELSE IF chID = "C2" THEN <<"U2">>
    ELSE <<>>

\* The message counts SearchMessages may report for a user.
ActivityCounts == {0, 3}

\* The number of members one page of GetUsersInConversation carries (the code
\* asks for at most 200).
PageLimit == 2

Min(a, b) == IF a < b THEN a ELSE b

\* The record of checkHistory in an invocation: whether it ran, on which
\* channel, whether it fetched the roster, the member it picked, the API call
\* that failed (if one did), whether it posted the warning, and how many calls
\* the invocation had made when it started.
NoAudit ==
    [ran |-> FALSE, channel |-> "", uID |-> "", fetched |-> FALSE,
     failed |-> "", warned |-> FALSE, at |-> 0]

NoResp == [statusCode |-> 0, body |-> "", err |-> FALSE]

\* asLFUR(body, code): the response, and an error beside it when code > 499.
asLFUR(body, code) == [statusCode |-> code, body |-> body, err |-> code > 499]

\* h.postMessage(chID, uID, msg): one PostMessage call; a failure is logged
\* and nothing else.  The call is recorded with the template it renders.
postMessage(cs, chID, uID, m) ==
    { Append(cs, [api |-> "post", channel |-> chID, user |-> uID, msg |-> m, ok |-> ok])
        : ok \in BOOLEAN }

KickCall(chID, uID, ok) ==
    [api |-> "kick", channel |-> chID, user |-> uID, msg |-> "", ok |-> ok]

\* h.kickUser(chID, uID, msg): one KickUserFromConversation call; on failure
\* return, on success postMessage.
kickUser(cs, chID, uID, m) ==
    { Append(cs, KickCall(chID, uID, FALSE)) }
    \cup postMessage(Append(cs, KickCall(chID, uID, TRUE)), chID, uID, m)

\* h.fetchChannelUsers(chID): the values h.chUsers may have when it returns.
\* The loop appends page after page; an error at call k leaves the k-1 pages read
\* so far, and the first call is always made.
fetchChannelUsers(chID) ==
    LET all == ChannelMembers(chID)
        nCalls == IF Len(all) = 0 THEN 1 ELSE (Len(all) + PageLimit - 1) \div PageLimit
    IN  { SubSeq(all, 1, Min((k - 1) * PageLimit, Len(all))) : k \in 1..nCalls }
        \cup { all }

\* rand.Shuffle over s: every permutation of s.
Shuffles(s) ==
    { [i \in 1..Len(s) |-> s[p[i]]] :
        p \in { q \in [1..Len(s) -> 1..Len(s)] : \A i, j \in 1..Len(s) : q[i] = q[j] => i = j } }

inactiveWarning == "non-yelling lurker detected, warning <@{user}>"

\* What one pass through checkHistory after the shuffle does, given the
\* shuffled roster: the index of element 0 panics on an empty roster; else
\* GetUserInfo may fail, the user may be a bot, SearchMessages may fail (each
\* returns without acting), and a count of zero posts the warning.
auditShuffled(hh, act, cs, chID, shuffled, fetched) ==
    LET after == [hh EXCEPT !.chUsers = shuffled]
        rec(u, failed, warned) ==
            [ran |-> TRUE, channel |-> chID, uID |-> u, fetched |-> fetched,
             failed |-> failed, warned |-> warned, at |-> Len(cs)]
        quiet(u, failed) ==
            [h |-> after, calls |-> cs, panicked |-> FALSE, audit |-> rec(u, failed, FALSE)]
    IN  IF Len(shuffled) = 0
        THEN { [h |-> after, calls |-> cs, panicked |-> TRUE, audit |-> rec("", "", FALSE)] }
        ELSE LET uID == shuffled[1]
             IN  { quiet(uID, "GetUserInfo") }
                 \cup IF uID \in Bots THEN { quiet(uID, "") }
                      ELSE { quiet(uID, "SearchMessages") }
                           \cup IF act[uID] = 0
                                THEN { [h |-> after, calls |-> c, panicked |-> FALSE,
                                        audit |-> rec(uID, "", TRUE)]
                                         : c \in postMessage(cs, chID, uID, inactiveWarning) }
                                ELSE { quiet(uID, "") }

\* checkHistory that warns every inactive member of the roster, not only the
\* one the shuffle put first.
checkHistoryBatch(hh, act, cs, chID) ==
    LET roster == IF Len(hh.chUsers) = 0 THEN ChannelMembers(chID) ELSE hh.chUsers
        idle == SelectSeq(roster, LAMBDA u : u \notin Bots /\ act[u] = 0)
    IN  { [h |-> [hh EXCEPT !.chUsers = roster],
           calls |-> cs \o [i \in 1..Len(idle) |->
                              [api |-> "post", channel |-> chID, user |-> idle[i],
                               msg |-> inactiveWarning, ok |-> TRUE]],
           panicked |-> FALSE,
           audit |-> [ran |-> TRUE, channel |-> chID,
                      uID |-> IF Len(idle) = 0 THEN "" ELSE idle[1],
                      fetched |-> Len(hh.chUsers) = 0, failed |-> "",
                      warned |-> Len(idle) > 0, at |-> Len(cs)]] }

\* checkHistory that takes the first member of the roster without looking at
\* the message count.
checkHistoryNoCount(hh, act, cs, chID) ==
    LET fetch == Len(hh.chUsers) = 0
        rosters == IF fetch THEN fetchChannelUsers(chID) ELSE { hh.chUsers }
        zero == [u \in Users |-> 0]
    IN  UNION { UNION { auditShuffled(hh, zero, cs, chID, sh, fetch) : sh \in Shuffles(r) }
                  : r \in rosters }

\* checkHistory that removes the inactive member it found, the call the code
\* has commented out, where the code posts a warning.
checkHistoryKick(hh, act, cs, chID) ==
    LET fetch == Len(hh.chUsers) = 0
        rosters == IF fetch THEN fetchChannelUsers(chID) ELSE { hh.chUsers }
        outs == UNION { UNION { auditShuffled(hh, act, cs, chID, sh, fetch) : sh \in Shuffles(r) }
                          : r \in rosters }
    IN  UNION { IF o.audit.warned
                THEN { [o EXCEPT !.calls = c] : c \in kickUser(cs, chID, o.audit.uID, inactiveWarning) }
                ELSE { o }
                  : o \in outs }

\* h.checkHistory(chID): the outcomes of one call.  The roster is fetched only
\* when h.chUsers is empty, whatever chID is.
checkHistory(hh, act, cs, chID) ==
    LET fetch == Len(hh.chUsers) = 0
        rosters == IF fetch THEN fetchChannelUsers(chID) ELSE { hh.chUsers }
    IN  UNION { UNION { auditShuffled(hh, act, cs, chID, sh, fetch) : sh \in Shuffles(r) }
                  : r \in rosters }

\* ---- Invoke

\* The message texts of TestCheckMessage that the events carry.
Texts ==
    { <<"Y","E","L","L">>,
      <<"t","a","l","k">>,
      <<"t","a","l","k"," ","t","a","l","k">>,
      <<"f","e","l","i","x"," ","h","a","s"," ","j","o","i","n","e","d"," ",
        "t","h","e"," ","c","h","a","n","n","e","l">> }

Event(type, inner, channelType, channel, user, text) ==
    [type |-> type, inner |-> inner, channelType |-> channelType,
     channel |-> channel, user |-> user, text |-> text, method |-> "POST"]

\* req.RequestContext.HTTP.Method: the transport methods a function URL
\* request arrives with.
Methods == {"POST", "GET"}

\* The same body arriving with transport method m.
WithMethod(e, m) == [e EXCEPT !.method = m]

NoEvent == Event("", "", "", "", "", <<>>)

\* The payloads Invoke is called with: posted messages, joins, a callback
\* with another inner event, the URL verification handshake, another outer
\* type, a body ParseEvent rejects (the event stays the zero value, type ""),
\* and a payload json.Unmarshal rejects.
PostedEvents ==
    { Event("event_callback", "message", ct, ch, u, t) :
        ct \in {"channel", "im"}, ch \in Channels, u \in {"U1", "U2"}, t \in Texts }
    \cup { Event("event_callback", "member_joined_channel", "", ch, u, <<>>) :
             ch \in Channels, u \in {"U1", "U2"} }
    \cup { Event("event_callback", "app_mention", "", "C1", "U1", <<>>),
           Event("url_verification", "", "", "", "", <<>>),
           Event("app_rate_limited", "", "", "", "", <<>>),
           Event("", "", "", "", "", <<>>),
           Event("(not json)", "", "", "", "", <<>>) }

\* Every readable request arrives with any of the transport methods; a payload
\* json.Unmarshal rejects has none to look at.
Events ==
    PostedEvents
    \cup { WithMethod(e, m) : e \in { x \in PostedEvents : x.type # "(not json)" },
                              m \in Methods }

welcomeMsg == "Welcome <@{user}>. If this is your first time here, please use all capitals for all messages. If you are returning, you know the rules"

Returned(hh, cs, r, a) ==
    [h |-> hh, calls |-> cs, resp |-> r, panicked |-> FALSE, audit |-> a]

\* The message case of Invoke for a message in a channel: the verdict's
\* action, then checkHistory when rand.Intn(23) equals the hour.
onChannelMessage(hh, act, e) ==
    LET acted ==
            UNION { IF v.kick THEN kickUser(<<>>, e.channel, e.user, v.out)
                    ELSE IF v.out # "" THEN postMessage(<<>>, e.channel, e.user, v.out)
                    ELSE { <<>> }
                      : v \in checkMessage(hh, e.text) }
    IN  UNION { { Returned(hh, cs, asLFUR("ok", 200), NoAudit) }
                \cup { [h |-> o.h, calls |-> o.calls,
                        resp |-> IF o.panicked THEN NoResp ELSE asLFUR("ok", 200),
                        panicked |-> o.panicked, audit |-> o.audit]
                         : o \in checkHistory(hh, act, cs, e.channel) }
                  : cs \in acted }

\* Invoke with a type switch that has no default branch: an outer type without
\* a case falls through to the final "ok".
InvokeOutcomesAckAll(hh, act, e) ==
    IF e.type = "(not json)"
    THEN { Returned(hh, <<>>, [statusCode |-> 0, body |-> "", err |-> TRUE], NoAudit) }
    ELSE IF e.type = "url_verification"
    THEN { Returned(hh, <<>>, asLFUR("challenge", 200), NoAudit) }
    ELSE IF e.type = "event_callback"
    THEN IF e.inner = "message"
         THEN IF e.channelType = "channel"
              THEN onChannelMessage(hh, act, e)
              ELSE { Returned(hh, <<>>, asLFUR("ok", 200), NoAudit) }
         ELSE IF e.inner = "member_joined_channel"
         THEN { Returned(hh, cs, asLFUR("ok", 200), NoAudit)
                  : cs \in postMessage(<<>>, e.channel, e.user, welcomeMsg) }
         ELSE { Returned(hh, <<>>, asLFUR("ok", 200), NoAudit) }
    ELSE { Returned(hh, <<>>, asLFUR("ok", 200), NoAudit) }

\* h.Invoke(ctx, b): the outcomes of one invocation on event e.
InvokeOutcomes(hh, act, e) ==
    IF e.type = "(not json)"
    THEN { Returned(hh, <<>>, [statusCode |-> 0, body |-> "", err |-> TRUE], NoAudit) }
    ELSE IF e.type = "url_verification"
    THEN { Returned(hh, <<>>, asLFUR("challenge", 200), NoAudit) }
    ELSE IF e.type = "event_callback"
    THEN IF e.inner = "message"
         THEN IF e.channelType = "channel"
              THEN onChannelMessage(hh, act, e)
              ELSE { Returned(hh, <<>>, asLFUR("ok", 200), NoAudit) }
         ELSE IF e.inner = "member_joined_channel"
         THEN { Returned(hh, cs, asLFUR("ok", 200), NoAudit)
                  : cs \in postMessage(<<>>, e.channel, e.user, welcomeMsg) }
         ELSE { Returned(hh, <<>>, asLFUR("ok", 200), NoAudit) }
    ELSE { Returned(hh, <<>>, asLFUR("missing type implementation", 501), NoAudit) }

\* The threshold main gives the handler.
DefaultThreshold == 1

\* The handler as main builds it, with the built-in templates.
MainHandler == NewHandler(DefaultThreshold, warningMessages, failureMessages)

TextIdle ==
    /\ word = <<>> /\ emoji = <<>> /\ retWord = <<>> /\ retBoth = <<>>
    /\ msg = <<>> /\ cmOut = <<>>

\* The invocations whose steps SpecConc interleaves on one handler.
Procs == {"i1", "i2"}

\* An invocation that has not reached checkHistory.
NotInCheckHistory == [pc |-> "idle", channel |-> "", page |-> 0, uID |-> ""]

RunIdle ==
    /\ pc = "ready" /\ ev = NoEvent /\ calls = <<>> /\ resp = NoResp
    /\ audit = NoAudit /\ fetchedFor = ""
    /\ inv = [p \in Procs |-> NotInCheckHistory] /\ overlap = FALSE

Init ==
    /\ TextIdle
    /\ RunIdle
    /\ h = MainHandler
    /\ activity \in [Users -> ActivityCounts]

\* One invocation, start to return (or panic).
Invoke ==
    /\ pc = "ready"
    /\ \E e \in Events : \E o \in InvokeOutcomes(h, activity, e) :
         /\ ev' = e
         /\ h' = o.h
         /\ calls' = o.calls
         /\ resp' = o.resp
         /\ audit' = o.audit
         /\ pc' = IF o.panicked THEN "crashed" ELSE "done"
         /\ fetchedFor' = IF o.audit.fetched THEN e.channel ELSE fetchedFor
    /\ UNCHANGED <<textVars, activity, concVars>>

\* lambda.StartHandler's loop: the response is delivered and the handler
\* waits for the next event; h stays as the invocation left it.
Respond ==
    /\ pc = "done"
    /\ pc' = "ready"
    /\ ev' = NoEvent /\ calls' = <<>> /\ resp' = NoResp /\ audit' = NoAudit
    /\ UNCHANGED <<textVars, h, activity, fetchedFor, concVars>>

\* After a panic the process is gone; the next event starts a new one in main.
Restart ==
    /\ pc = "crashed"
    /\ pc' = "ready"
    /\ h' = MainHandler
    /\ ev' = NoEvent /\ calls' = <<>> /\ resp' = NoResp /\ audit' = NoAudit
    /\ fetchedFor' = ""
    /\ UNCHANGED <<textVars, activity, concVars>>

Next == Invoke \/ Respond \/ Restart

Spec == Init /\ [][Next]_vars

\* ------------------------------------------- isYell on bounded tokens

\* The longest token, in fragments.
MaxFrags == 4

\* The pieces tokens are built from: a lower-case and an upper-case letter, a
\* digit, punctuation, the colon of shortcodes, the parts of a URL, a named
\* and a numeric character reference.
TokenFrags ==
    { <<"s">>, <<"A">>, <<"1">>, <<"!">>, <<":">>,
      <<"h","t","t","p">>, <<":","/","/">>,
      <<"&","a","m","p",";">>, <<"&","#","9","7",";">> }

\* Emoji shortcodes: a colon, non-colon non-space runes, a colon.
Shortcodes == { <<":","s","m","i","l","e",":">>, <<":","+","1",":">> }

RECURSIVE Concats(_, _)
Concats(frags, n) ==
    IF n = 0 THEN { <<>> }
    ELSE LET shorter == Concats(frags, n - 1)
         IN  shorter \cup { p \o f : p \in shorter, f \in frags }

InitYell ==
    /\ word \in Concats(TokenFrags, MaxFrags)
    /\ emoji \in Shortcodes
    /\ retWord = <<>> /\ retBoth = <<>>
    /\ msg = <<>> /\ cmOut = <<>>
    /\ RunIdle
    /\ h = MainHandler
    /\ activity = [u \in Users |-> 0]

CallIsYell ==
    /\ retWord = <<>>
    /\ retWord' = <<isYell(word)>>
    /\ UNCHANGED <<word, emoji, retBoth, msg, cmOut, h, runVars>>

CallIsYellWithEmoji ==
    /\ retBoth = <<>>
    /\ retBoth' = <<isYell(word \o emoji)>>
    /\ UNCHANGED <<word, emoji, retWord, msg, cmOut, h, runVars>>

NextYell == CallIsYell \/ CallIsYellWithEmoji

SpecYell == InitYell /\ [][NextYell]_vars

\* ------------------------------------- checkMessage on bounded messages

\* The longest message, in words, and the largest threshold.
MaxWords == 3

MaxThreshold == 2

\* The words messages are joined from: quiet and yelling words, an escaped
\* quote marker, a link, the empty word (which doubles a space or puts one at
\* an end), two of Slack's notices, and one of them with its case changed.
MsgWords ==
    { <<>>,
      <<"t","a","l","k">>,
      <<"Y","E","L","L">>,
      <<"&","g","t",";","E","L","L">>,
      <<"h","t","t","p",":","/","/","e","x","a","m","p","l","e",".","c","o","m">>,
      <<"h","a","s"," ","j","o","i","n","e","d"," ","t","h","e"," ","c","h","a","n","n","e","l">>,
      <<"s","t","a","r","t","e","d"," ","a"," ","c","a","l","l">>,
      <<"S","t","a","r","t","e","d"," ","a"," ","c","a","l","l">> }

RECURSIVE Join(_)
Join(ws) ==
    IF Len(ws) = 0 THEN <<>>
    ELSE IF Len(ws) = 1 THEN ws[1]
    ELSE ws[1] \o <<" ">> \o Join(Tail(ws))

Messages == { Join(ws) : ws \in UNION { [1..n -> MsgWords] : n \in 0..MaxWords } }

\* The handlers checkMessage is called on: main's template lists or the
\* test's, with every threshold up to MaxThreshold.
Handlers ==
    { NewHandler(t, warningMessages, failureMessages) : t \in 0..MaxThreshold }
    \cup { NewHandler(t, <<"WARN">>, <<"KICK">>) : t \in 0..MaxThreshold }

InitCheck ==
    /\ msg \in Messages
    /\ h \in Handlers
    /\ cmOut = <<>>
    /\ word = <<>> /\ emoji = <<>> /\ retWord = <<>> /\ retBoth = <<>>
    /\ RunIdle
    /\ activity = [u \in Users |-> 0]

CallCheckMessage ==
    /\ cmOut = <<>>
    /\ \E r \in checkMessage(h, msg) : cmOut' = <<r>>
    /\ UNCHANGED <<word, emoji, retWord, retBoth, msg, h, runVars>>

NextCheck == CallCheckMessage

SpecCheck == InitCheck /\ [][NextCheck]_vars

\* ------------------------------ checkHistory, statement by statement
\* handler has no mutex and checkHistory takes no lock: when Invoke runs in
\* two goroutines on one handler, the statements of checkHistory and
\* fetchChannelUsers that touch h.chUsers interleave freely.  Each statement
\* is taken as one step (the coarsest interleaving an unsynchronised build
\* produces).

\* The number of GetUsersInConversation calls a complete fetch of chID makes.
NumPages(chID) ==
    LET n == Len(ChannelMembers(chID))
    IN  IF n = 0 THEN 1 ELSE (n + PageLimit - 1) \div PageLimit

\* The users the k-th call returns.
PageOf(chID, k) ==
    LET all == ChannelMembers(chID)
    IN  SubSeq(all, (k - 1) * PageLimit + 1, Min(k * PageLimit, Len(all)))

\* Invocation q has reset h.chUsers and has not finished refilling it.
Refilling(q) == inv[q].pc = "list"

\* Some invocation other than p is refilling the roster.
OtherRefilling(p) == \E q \in Procs \ {p} : Refilling(q)

\* A panic in one goroutine ends the process.
Running == \A p \in Procs : inv[p].pc # "panic"

InitConc ==
    /\ TextIdle
    /\ RunIdle
    /\ h = MainHandler
    /\ activity = [u \in Users |-> 0]

\* Invoke reaches h.checkHistory(m.Channel).
EnterCheckHistory(p) ==
    /\ Running /\ inv[p].pc = "idle"
    /\ \E chID \in Channels :
         inv' = [inv EXCEPT ![p] = [pc |-> "check", channel |-> chID, page |-> 0, uID |-> ""]]
    /\ UNCHANGED <<textVars, h, activity, pc, ev, calls, resp, audit, fetchedFor, overlap>>

\* if len(h.chUsers) == 0
CheckLen(p) ==
    /\ Running /\ inv[p].pc = "check"
    /\ inv' = [inv EXCEPT ![p].pc = IF Len(h.chUsers) = 0 THEN "reset" ELSE "shuffle"]
    /\ overlap' = (overlap \/ OtherRefilling(p))
    /\ UNCHANGED <<textVars, h, activity, pc, ev, calls, resp, audit, fetchedFor>>

\* h.chUsers = make([]string, 0)
ResetRoster(p) ==
    /\ Running /\ inv[p].pc = "reset"
    /\ h' = [h EXCEPT !.chUsers = <<>>]
    /\ inv' = [inv EXCEPT ![p].pc = "list", ![p].page = 1]
    /\ UNCHANGED <<textVars, activity, pc, ev, calls, resp, audit, fetchedFor, overlap>>

\* One turn of the loop: GetUsersInConversation answers, the page is appended,
\* and an empty cursor ends the loop.
ListPage(p) ==
    /\ Running /\ inv[p].pc = "list"
    /\ h' = [h EXCEPT !.chUsers = h.chUsers \o PageOf(inv[p].channel, inv[p].page)]
    /\ inv' = IF inv[p].page >= NumPages(inv[p].channel)
              THEN [inv EXCEPT ![p].pc = "shuffle"]
              ELSE [inv EXCEPT ![p].page = inv[p].page + 1]
    /\ UNCHANGED <<textVars, activity, pc, ev, calls, resp, audit, fetchedFor, overlap>>

\* GetUsersInConversation fails: fetchChannelUsers logs and returns, the roster
\* stays as far as it was filled.
ListFail(p) ==
    /\ Running /\ inv[p].pc = "list"
    /\ inv' = [inv EXCEPT ![p].pc = "shuffle"]
    /\ UNCHANGED <<textVars, h, activity, pc, ev, calls, resp, audit, fetchedFor, overlap>>

\* rand.Shuffle(len(h.chUsers), ...)
ShuffleRoster(p) ==
    /\ Running /\ inv[p].pc = "shuffle"
    /\ \E sh \in Shuffles(h.chUsers) : h' = [h EXCEPT !.chUsers = sh]
    /\ inv' = [inv EXCEPT ![p].pc = "index"]
    /\ overlap' = (overlap \/ OtherRefilling(p))
    /\ UNCHANGED <<textVars, activity, pc, ev, calls, resp, audit, fetchedFor>>

\* uID := h.chUsers[0]: index out of range on an empty roster.
IndexRoster(p) ==
    /\ Running /\ inv[p].pc = "index"
    /\ inv' = IF Len(h.chUsers) = 0
              THEN [inv EXCEPT ![p].pc = "panic"]
              ELSE [inv EXCEPT ![p].pc = "picked", ![p].uID = h.chUsers[1]]
    /\ overlap' = (overlap \/ OtherRefilling(p))
    /\ UNCHANGED <<textVars, h, activity, pc, ev, calls, resp, audit, fetchedFor>>

NextConc ==
    \E p \in Procs :
        \/ EnterCheckHistory(p)
        \/ CheckLen(p)
        \/ ResetRoster(p)
        \/ ListPage(p)
        \/ ListFail(p)
        \/ ShuffleRoster(p)
        \/ IndexRoster(p)

SpecConc == InitConc /\ [][NextConc]_vars

\* ------------------------------------------------------------------ claims

\* Whether text holds phrase as a contiguous run of runes, case and all.
HoldsPhrase(text, phrase) ==
    \E i \in 1..Len(text) :
        /\ i + Len(phrase) - 1 <= Len(text)
        /\ SubSeq(text, i, i + Len(phrase) - 1) = phrase

HoldsSkipPhrase(text) == \E k \in 1..Len(skipMessages) : HoldsPhrase(text, skipMessages[k])

HasLower(s) == \E i \in 1..Len(s) : IsLower(s[i])

\* C1: for a message with no skip phrase and a threshold >= 0, with count the
\* number of whitespace-delimited tokens isYell rejects, checkMessage returns a
\* kick template with kick = true iff count > threshold, a warn template with
\* kick = false iff 0 < count <= threshold, and ("", false) iff count = 0.
C1_VerdictByCount ==
    (cmOut # <<>> /\ ~HoldsSkipPhrase(msg) /\ h.threshold >= 0) =>
        LET r == cmOut[1]
            count == NonYellCount(msg)
        IN  /\ (r.out \in Range(h.msgKick) /\ r.kick) <=> (count > h.threshold)
            /\ (r.out \in Range(h.msgWarnings) /\ ~r.kick)
                  <=> (0 < count /\ count <= h.threshold)
            /\ (r.out = "" /\ ~r.kick) <=> (count = 0)

\* A kick was returned for a message exactly one quiet token over a threshold
\* of at least 1, and the message has no skip phrase.
C1_Witness ==
    /\ cmOut # <<>>
    /\ ~HoldsSkipPhrase(msg)
    /\ h.threshold >= 1
    /\ NonYellCount(msg) = h.threshold + 1
    /\ cmOut[1].kick
    /\ cmOut[1].out \in Range(h.msgKick)

\* C2: for a message that contains a skip phrase (case-sensitively),
\* checkMessage returns ("", false) whatever the other tokens and the
\* threshold are.
C2_SkipPhraseIsNone ==
    (cmOut # <<>> /\ HoldsSkipPhrase(msg)) => cmOut[1] = [out |-> "", kick |-> FALSE]

\* checkMessage returned ("", false) for a message with a skip phrase and more
\* quiet tokens than the threshold.
C2_Witness ==
    /\ cmOut = << [out |-> "", kick |-> FALSE] >>
    /\ HoldsSkipPhrase(msg)
    /\ NonYellCount(msg) > h.threshold
    /\ h.threshold > 0

\* C6 as stated: a token with a lower-case letter that does not match the
\* URL pattern is never classified as yelling.
C6_LowerIsQuiet ==
    (retWord # <<>> /\ HasLower(word) /\ ~urlMatch(word)) => retWord = <<FALSE>>

\* C6 amended: a token that still has a lower-case letter once its emoji
\* shortcodes are removed and its character references decoded, and whose
\* text without the shortcodes does not match the URL pattern, is never
\* classified as yelling.
C6_LowerLeftIsQuiet ==
    (/\ retWord # <<>>
     /\ HasLower(UnescapeString(emojiStrip(word)))
     /\ ~urlMatch(emojiStrip(word))) => retWord = <<FALSE>>

\* isYell returned false for a token with a shortcode removed, whose rest has
\* a lower-case letter and is no URL.
C6_Witness ==
    /\ retWord = <<FALSE>>
    /\ emojiStrip(word) # word
    /\ HasLower(UnescapeString(emojiStrip(word)))
    /\ ~urlMatch(emojiStrip(word))

\* C7 as stated: a token without any lower-case letter (upper-case letters,
\* digits, punctuation, or nothing at all) is classified as yelling.
C7_NoLowerIsYell ==
    (retWord # <<>> /\ ~HasLower(word)) => retWord = <<TRUE>>

\* C7 amended: a token without any lower-case letter whose character
\* references decode to no lower-case letter either is classified as yelling.
C7_NoLowerDecodedIsYell ==
    (/\ retWord # <<>>
     /\ ~HasLower(word)
     /\ ~HasLower(UnescapeString(emojiStrip(word)))) => retWord = <<TRUE>>

\* isYell returned true for a token of an upper-case letter, a digit or
\* punctuation and nothing lower-case.
C7_Witness ==
    /\ retWord = <<TRUE>>
    /\ ~HasLower(word)
    /\ \E i \in 1..Len(word) : IsUpper(word[i])
    /\ \E i \in 1..Len(word) : word[i] \in {"1", "!"}

\* C8 as stated: appending an emoji shortcode to a token never changes what
\* isYell returns.
C8_ShortcodeIgnored ==
    (retWord # <<>> /\ retBoth # <<>>) => retBoth = retWord

\* Scanning s from index i as emojiRE does: whether the scan meets a colon,
\* outside every shortcode of s, that only non-colon runes follow up to the
\* end of s (at least one): a shortcode left open at the end.
RECURSIVE EndsOpenFrom(_, _)
EndsOpenFrom(s, i) ==
    IF i > Len(s) THEN FALSE
    ELSE IF EmojiEnd(s, i) # 0 THEN EndsOpenFrom(s, EmojiEnd(s, i) + 1)
    ELSE \/ s[i] = ":" /\ i < Len(s) /\ \A j \in (i + 1)..Len(s) : s[j] # ":"
         \/ EndsOpenFrom(s, i + 1)

\* C8 amended: appending an emoji shortcode to a token that does not end in
\* an open shortcode never changes what isYell returns.
C8_ShortcodeIgnoredUnlessOpen ==
    (retWord # <<>> /\ retBoth # <<>> /\ ~EndsOpenFrom(word, 1)) => retBoth = retWord

\* Both calls returned true for a token that holds a colon and an upper-case
\* letter and does not end in an open shortcode.
C8_Witness ==
    /\ retWord = <<TRUE>>
    /\ retBoth = <<TRUE>>
    /\ ~EndsOpenFrom(word, 1)
    /\ \E i \in 1..Len(word) : word[i] = ":"
    /\ \E i \in 1..Len(word) : IsUpper(word[i])

\* ---- the handler's claims

\* The calls checkHistory made in the last invocation.
AuditCalls == SubSeq(calls, audit.at + 1, Len(calls))

\* The members the last invocation named as inactive: the users of its
\* inactivity warnings.
Candidates == { AuditCalls[i].user : i \in 1..Len(AuditCalls) }

\* C3: an audit whose roster is empty after the fetch (the fetch failed or
\* listed no members) returns normally and takes no action; it never crashes
\* the process.
C3_EmptyRosterIsNoCrash ==
    (audit.ran /\ Len(h.chUsers) = 0) => (pc = "done" /\ AuditCalls = <<>>)

\* C4 as stated: when a member of the roster the audit used has no messages in
\* the window, the audit yields a candidate, a roster member without messages
\* (stated for the audits in which no API call failed).
C4_IdleMemberIsFound ==
    (/\ pc = "done" /\ audit.ran /\ audit.failed = ""
     /\ \E i \in 1..Len(h.chUsers) : activity[h.chUsers[i]] = 0)
        => \E u \in Candidates : u \in Range(h.chUsers) /\ activity[u] = 0

\* C4 amended: an audit looks only at the member the shuffle put first.  It
\* yields that member as the candidate when the member is no bot, has no
\* messages in the window and the API calls succeed, and no candidate
\* otherwise, whoever else is inactive; a candidate is always a roster member
\* without messages, never one with a positive count.
C4_FirstMemberIfIdle ==
    (pc = "done" /\ audit.ran) =>
        /\ audit.uID = h.chUsers[1]
        /\ \A u \in Candidates : u = audit.uID /\ activity[u] = 0 /\ u \notin Bots
        /\ (audit.failed = "" /\ audit.uID \notin Bots /\ activity[audit.uID] = 0)
              => Candidates = { audit.uID }

\* An audit over a roster of three, one of them active, named an inactive one.
C4_Witness ==
    /\ pc = "done" /\ audit.ran
    /\ Len(h.chUsers) = 3
    /\ \E i \in 1..3 : activity[h.chUsers[i]] > 0
    /\ Candidates # {}

\* C5: the roster an audit of a channel picks from is the membership fetched
\* for that channel, never another channel's.
C5_RosterOfAuditedChannel ==
    (audit.ran /\ audit.uID # "") =>
        /\ fetchedFor = audit.channel
        /\ audit.uID \in Range(ChannelMembers(audit.channel))

\* C9: one audit issues at most one remediation call (one post or one
\* removal), whatever the roster and however many members are inactive.
C9_AtMostOneAction ==
    audit.ran => Len(AuditCalls) <= 1

\* An audit over a roster with two inactive members that are no bots issued
\* its one call.
C9_Witness ==
    /\ audit.ran
    /\ Len(AuditCalls) = 1
    /\ Cardinality({ u \in Range(h.chUsers) : activity[u] = 0 /\ u \notin Bots }) >= 2

\* Whether the last invocation handled a channel message whose verdict is Kick.
KickVerdict ==
    /\ pc # "ready"
    /\ ev.type = "event_callback" /\ ev.inner = "message" /\ ev.channelType = "channel"
    /\ ~HoldsSkipPhrase(ev.text)
    /\ NonYellCount(ev.text) > h.threshold

KickCalls == { i \in 1..Len(calls) : calls[i].api = "kick" }

Announcements ==
    { i \in 1..Len(calls) : calls[i].api = "post" /\ calls[i].msg \in Range(h.msgKick) }

\* The removal and its announcement, for a Kick verdict: one attempt, no
\* retry; the announcement only after a removal that succeeded, none after a
\* failed one; a failed announcement changes nothing about the removal.
KickOnceThenAnnounce ==
    KickVerdict =>
        /\ KickCalls = {1}
        /\ calls[1].user = ev.user /\ calls[1].channel = ev.channel
        /\ calls[1].ok => Announcements = {2}
        /\ ~calls[1].ok => Announcements = {}

\* C10: for a Kick verdict the handler attempts the removal once and never
\* retries, announces it only after it succeeded, posts nothing for a failed
\* removal, leaves a removal in place when the announcement fails, and
\* answers 200 "ok" in every case.
C10_KickThenOk ==
    KickVerdict =>
        /\ KickOnceThenAnnounce
        /\ pc = "done"
        /\ resp = asLFUR("ok", 200)

\* Whether the last invocation handled a callback wrapping a posted-message or
\* a member-joined event.
HandledCallback ==
    ev.type = "event_callback" /\ ev.inner \in {"message", "member_joined_channel"}

\* Whether the last invocation handled an event that is neither the challenge
\* nor a callback wrapping a posted-message or member-joined event.
OtherEvent ==
    pc # "ready" /\ ev.type # "url_verification" /\ ~HandledCallback

\* Whether the last invocation took no outbound action: no post, no removal,
\* no audit, and it returned.
NoOutboundAction ==
    calls = <<>> /\ ~audit.ran /\ pc = "done"

\* C11 as stated: an event that is neither the challenge nor a callback
\* wrapping a posted-message or member-joined event (another inner kind, another
\* outer type, a payload that fails to parse) is answered with an error (a 5xx
\* status, or the invocation error of an unreadable payload) and causes no
\* outbound action.
C11_OtherEventIsError ==
    OtherEvent =>
        /\ resp.err /\ (resp.statusCode = 0 \/ resp.statusCode >= 500)
        /\ NoOutboundAction

\* C11 amended: such an event never causes an outbound action.  An outer type
\* without a case, the zero event of a body ParseEvent rejects included, is
\* answered 501 with an error; a payload json.Unmarshal rejects ends the
\* invocation with an error and no response; a callback wrapping another inner
\* event kind is acknowledged with 200 "ok" and no error.
C11_OtherEventIsQuiet ==
    OtherEvent =>
        /\ NoOutboundAction
        /\ resp = IF ev.type = "(not json)"
                  THEN [statusCode |-> 0, body |-> "", err |-> TRUE]
                  ELSE IF ev.type = "event_callback"
                  THEN asLFUR("ok", 200)
                  ELSE asLFUR("missing type implementation", 501)

\* An event of an outer type without a case was answered 501, after an earlier
\* invocation had filled the roster cache.
C11_Witness ==
    /\ pc = "done" /\ ev.type = "app_rate_limited"
    /\ resp.statusCode = 501 /\ resp.err
    /\ Len(h.chUsers) > 0

\* C12: a request whose transport method is not POST is rejected with status
\* 405 before the event is parsed; no moderation, welcome or audit action is
\* taken for it.
C12_NonPostIs405 ==
    (pc # "ready" /\ ev.method # "POST") =>
        /\ resp.statusCode = 405
        /\ calls = <<>> /\ ~audit.ran

\* ---- the roster cache under concurrent invocations

\* Whether s holds the elements of r, each as often, in some order.
IsShuffleOf(s, r) ==
    /\ Len(s) = Len(r)
    /\ \A u \in Users :
          Cardinality({ i \in 1..Len(s) : s[i] = u }) = Cardinality({ i \in 1..Len(r) : r[i] = u })

\* Whether s is what one fetch of one channel leaves in the cache (complete,
\* or cut short by a failed call), shuffled or not.
OfOneFetch(s) ==
    \E chID \in Channels : \E r \in fetchChannelUsers(chID) : IsShuffleOf(s, r)

====
